---- MODULE Spec2Model ----
(***************************************************************************)
(* A model of app/data_sources.py: the memoised per-city loaders, the      *)
(* area-weighted population, the Somerville spatial join and the bundle    *)
(* composers behind get_bundle.                                            *)
(*                                                                         *)
(* Representation.  A DataFrame is a sequence of rows, a row a function    *)
(* from column names to cell values; a GeoDataFrame is a record            *)
(* [crs, rows].  Text that the code edits character by character (crime    *)
(* labels, block codes) is a sequence of one-character strings; text that  *)
(* is only compared (neighbourhood names) is a string.  A geometry is the  *)
(* set of points it covers together with its area in EPSG:26986 units, so  *)
(* that `intersects` is a shared point; two polygons with a common border  *)
(* share the border's points.  Numbers the code computes in floating point *)
(* are exact fractions <<numerator, denominator>>; rounding is not         *)
(* modelled.                                                               *)
(***************************************************************************)
EXTENDS Integers, Sequences, FiniteSets, TLC

VARIABLES
    inputs,   \* the files and configuration data the process reads
    cache,    \* lru_cache of each loader: <<>> (empty) or <<result>>
    reads,    \* how many times each source file has been read
    calls,    \* how many times each function body has run
    bundle,   \* what the last get_bundle call returned
    pc,       \* the call stack of each thread (concurrent callers only)
    arg,      \* the argument of a function applied on its own
    out       \* its result

vars == <<inputs, cache, reads, calls, bundle, pc, arg, out>>

(***************************************************************************)
(* Missing values.                                                         *)
(***************************************************************************)
\* None / NaN in a column of names (strings)
NULL == "<NA>"

\* NaN in a column of character-wise text
NaN == <<"<NA>">>

\* NaT in a column of dates
NaT == <<>>

\* a missing geometry covers no point
NoGeometry == [pts |-> {}, area |-> 0]

(***************************************************************************)
(* Bounds of the model.                                                    *)
(***************************************************************************)
\* longest block identifier the normalisation is applied to on its own
MaxLen == 6

\* rows of a city's raw crime table
MaxRows == 2

\* get_bundle calls in one process
MaxCalls == 2

\* regions handed to the area-weighted population on its own
MaxRegions == 3

\* census-block rows and crime rows handed to the spatial join on its own
MaxJoinRows == 2

\* concurrent callers
NThreads == 2

(***************************************************************************)
(* str, Series.str and Series.map                                          *)
(***************************************************************************)
\* Series.astype(str): a missing value becomes the text "nan"
astype_str(v) == IF v = NaN THEN <<"n", "a", "n">> ELSE v

\* str.rstrip(chars) keeping only the first n characters of s
RECURSIVE rstrip_from(_, _, _)
rstrip_from(s, chars, n) ==
    IF n = 0 THEN <<>>
    ELSE IF s[n] \in chars THEN rstrip_from(s, chars, n - 1)
    ELSE SubSeq(s, 1, n)

\* str.removesuffix: what trimming "a trailing .0 suffix" would be
removesuffix(s, chars) ==
    IF Len(s) >= 2 /\ s[Len(s) - 1] = "." /\ s[Len(s)] = "0"
    THEN SubSeq(s, 1, Len(s) - 2)
    ELSE s

\* str.rstrip(chars): drop characters of `chars` from the right end until
\* one that is not in `chars` is met
rstrip(s, chars) == rstrip_from(s, chars, Len(s))

\* the argument ".0" of rstrip, as the set of characters it denotes
DotZero == {".", "0"}

ToUpper(c) ==
    CASE c = "a" -> "A" [] c = "b" -> "B" [] c = "n" -> "N" [] OTHER -> c

ToLower(c) ==
    CASE c = "A" -> "a" [] c = "B" -> "b" [] c = "N" -> "n" [] OTHER -> c

IsAlpha(c) == c \in {"a", "b", "n", "A", "B", "N"}

\* str.title(): a letter that starts a word is upper-cased, any other lower-cased
title(s) ==
    [i \in 1..Len(s) |->
        IF i = 1 \/ ~IsAlpha(s[i - 1]) THEN ToUpper(s[i]) ELSE ToLower(s[i])]

\* Series.str.title(): a missing value stays missing
str_title(v) == IF v = NaN THEN NaN ELSE title(v)

\* Series.map(dict): a key the dict lacks maps to a missing value
map(d, k) == IF k \in DOMAIN d THEN d[k] ELSE NULL

\* Series.fillna(other)
fillna(v, other) == IF v = NULL THEN other ELSE v

(***************************************************************************)
(* Numbers: float arithmetic as exact fractions <<numerator, denominator>>  *)
(***************************************************************************)
RECURSIVE GCD(_, _)
GCD(a, b) == IF b = 0 THEN a ELSE GCD(b, a % b)

\* the fraction n/d in lowest terms (n >= 0, d > 0)
Frac(n, d) == LET g == GCD(n, d) IN <<n \div g, d \div g>>

\* float(n)
float(n) == <<n, 1>>

AddFrac(x, y) == Frac(x[1] * y[2] + y[1] * x[2], x[2] * y[2])

(***************************************************************************)
(* DataFrame operations                                                    *)
(***************************************************************************)
\* df[[cols]]: the rows cut down to the columns `cols` (and the source-row
\* tag "_row", which stands for the record's provenance, not for a column)
select(df, cols) ==
    [i \in 1..Len(df) |-> [c \in cols \cup ({"_row"} \cap DOMAIN df[i]) |-> df[i][c]]]

\* df[col] = vals: the column added to, or replaced in, every row
with_column(df, col, vals) ==
    [i \in 1..Len(df) |-> (col :> vals[i]) @@ df[i]]

\* pd.read_csv: the file's rows in file order, each tagged with its position
read_csv(file) == [i \in 1..Len(file) |-> ("_row" :> i) @@ file[i]]

\* Series.str.split(" ").str[0] of a "date time" text: its first token
first_token(v) == IF v = NaT THEN NaT ELSE v[1]

\* pd.to_datetime of a "month/day/year" text, errors="coerce"
to_datetime(v) ==
    IF Len(v) = 3 /\ v[1] \in 1..12 /\ v[2] \in 1..31
    THEN <<v[3], v[1], v[2]>>
    ELSE NaT

\* the union of the frames' columns
columns(frames) ==
    UNION {UNION {DOMAIN frames[f][i] : i \in 1..Len(frames[f])} : f \in 1..Len(frames)}

\* a row given the columns `cols`; a column the row lacks holds a missing value
reindex(row, cols) == [c \in cols |-> IF c \in DOMAIN row THEN row[c] ELSE NULL]

\* the frames' rows, frame after frame, over the columns `cols`
RECURSIVE stack(_, _)
stack(frames, cols) ==
    IF frames = <<>> THEN <<>>
    ELSE [i \in 1..Len(Head(frames)) |-> reindex(Head(frames)[i], cols)]
         \o stack(Tail(frames), cols)

\* pd.concat that takes the frames from the last to the first
concat_reversed(frames) ==
    stack([f \in 1..Len(frames) |-> frames[Len(frames) + 1 - f]], columns(frames))

\* pd.concat(frames, ignore_index=True): the frames' rows, one frame after
\* the other, each frame's rows in their own order, over the union of the
\* frames' columns (join="outer")
concat(frames) == stack(frames, columns(frames))

\* {**a, **b} where the earlier dict wins a shared key
merge_dicts_first_wins(a, b) ==
    [k \in DOMAIN a \cup DOMAIN b |-> IF k \in DOMAIN a THEN a[k] ELSE b[k]]

\* {**a, **b}: b's value for a key of b, a's for any other key of a
merge_dicts(a, b) ==
    [k \in DOMAIN a \cup DOMAIN b |-> IF k \in DOMAIN b THEN b[k] ELSE a[k]]

(***************************************************************************)
(* Configuration data (module config): sample tables                       *)
(***************************************************************************)
CAMBRIDGE_CRIME_MACROS == (<<"A", "b">> :> "Property")

BOSTON_CRIME_MACROS == (<<"A", "b">> :> "Property") @@ (<<"B", " ", "A">> :> "Violent")

SOMERVILLE_CRIME_MACROS == (<<"A", "b">> :> "Property")

CAMBRIDGE_NEIGHBORHOOD_NAME_MAP == ("Area Four" :> "The Port")

BOSTON_NEIGHBORHOOD_NAME_MAP == ("South Boston Waterfront" :> "Seaport")

(***************************************************************************)
(* GeoDataFrame operations                                                 *)
(***************************************************************************)
\* the predicate "intersects": the two geometries share a point
intersects(g1, g2) == g1.pts \cap g2.pts # {}

\* gpd.read_file followed by `if crs != "EPSG:4326": to_crs(epsg=4326)`
read_file_4326(file) ==
    IF file.crs # "EPSG:4326" THEN [file EXCEPT !.crs = "EPSG:4326"] ELSE file

\* the greatest member of a non-empty set of row numbers
LastIndex(S) == CHOOSE i \in S : \A j \in S : j <= i

\* df.set_index(key)[val].to_dict(): of the rows that share a key, the last
\* one gives the key's value
to_dict(rows, key, val) ==
    [k \in {rows[i][key] : i \in 1..Len(rows)} |->
        rows[LastIndex({i \in 1..Len(rows) : rows[i][key] = k})][val]]

RECURSIVE SumSeq(_)
SumSeq(s) == IF s = <<>> THEN 0 ELSE Head(s) + SumSeq(Tail(s))

\* the rows of `right` whose key equals the key of the left row, in order;
\* a left row without a match is kept once, with missing right columns
merge_row(row, right, left_on, right_on) ==
    LET hits == SelectSeq(right, LAMBDA r : r[right_on] = row[left_on])
    IN  IF hits = <<>>
        THEN <<(right_on :> NaN) @@ ("geometry" :> NoGeometry) @@ row>>
        ELSE [j \in 1..Len(hits) |-> hits[j] @@ row]

\* left.merge(right, left_on, right_on, how="left"), rows 1..n of left
RECURSIVE merge_upto(_, _, _, _, _)
merge_upto(left, right, left_on, right_on, n) ==
    IF n = 0 THEN <<>>
    ELSE merge_upto(left, right, left_on, right_on, n - 1)
         \o merge_row(left[n], right, left_on, right_on)

\* left.merge(right, left_on=..., right_on=..., how="left")
merge(left, right, left_on, right_on) ==
    merge_upto(left, right, left_on, right_on, Len(left))

\* one output row per row of `right` whose geometry intersects the left
\* row's; a left row that intersects none is kept once, NBHD missing
sjoin_row(row, right) ==
    LET hits == SelectSeq([j \in 1..Len(right) |-> j],
                          LAMBDA j : intersects(row["geometry"], right[j]["geometry"]))
    IN  IF hits = <<>>
        THEN <<("index_right" :> -1) @@ ("NBHD" :> NULL) @@ row>>
        ELSE [k \in 1..Len(hits) |->
                ("index_right" :> hits[k] - 1) @@ ("NBHD" :> right[hits[k]]["NBHD"]) @@ row]

\* the rows 1..n of left joined to right
RECURSIVE sjoin_upto(_, _, _)
sjoin_upto(left, right, n) ==
    IF n = 0 THEN <<>>
    ELSE sjoin_upto(left, right, n - 1) \o sjoin_row(left[n], right)

\* gpd.sjoin(how="inner"): a left row that intersects nothing is dropped
sjoin_inner(left, right) ==
    SelectSeq(sjoin_upto(left, right, Len(left)), LAMBDA r : r["index_right"] # -1)

\* gpd.sjoin(left, right, how="left", predicate="intersects")
sjoin(left, right) == sjoin_upto(left, right, Len(left))

\* df.rename(columns={old: new})
rename(df, old, new) ==
    [i \in 1..Len(df) |->
        [c \in (DOMAIN df[i] \ {old}) \cup {new} |->
            IF c = new THEN df[i][old] ELSE df[i][c]]]

(***************************************************************************)
(* The loaders' bodies, as functions of the files they read                *)
(***************************************************************************)
cambridge_crime_frame(file) ==
    LET df0 == select(read_csv(file),
                      {"Crime Date Time", "Crime", "Neighborhood", "Reporting Area"})
        df1 == with_column(df0, "Date",
                   [i \in 1..Len(df0) |-> to_datetime(first_token(df0[i]["Crime Date Time"]))])
    IN  with_column(df1, "Macro Crime",
            [i \in 1..Len(df1) |-> map(CAMBRIDGE_CRIME_MACROS, df1[i]["Crime"])])

cambridge_geo_frame(file) ==
    LET geo_df == read_file_4326(file)
    IN  [geo_df EXCEPT !.rows = with_column(@, "Mapped_Name",
            [i \in 1..Len(@) |-> map(CAMBRIDGE_NEIGHBORHOOD_NAME_MAP, @[i]["NAME"])])]

boston_crime_frame(file) ==
    LET df0 == select(read_csv(file), {"From Date", "Crime", "Neighborhood", "BPD District"})
        df1 == with_column(df0, "Date",
                   [i \in 1..Len(df0) |-> to_datetime(first_token(df0[i]["From Date"]))])
        df2 == with_column(df1, "Crime", [i \in 1..Len(df1) |-> str_title(df1[i]["Crime"])])
        df3 == with_column(df2, "Macro Crime",
                   [i \in 1..Len(df2) |-> map(BOSTON_CRIME_MACROS, df2[i]["Crime"])])
    IN  with_column(df3, "Mapped_Neighborhood",
            [i \in 1..Len(df3) |->
                fillna(map(BOSTON_NEIGHBORHOOD_NAME_MAP, df3[i]["Neighborhood"]),
                       df3[i]["Neighborhood"])])

\* str.strip() of a spreadsheet label; of the labels of the model only
\* "Dorchester " carries surrounding white space
strip(k) == IF k = "Dorchester " THEN "Dorchester" ELSE k

\* the sheet read with header=2 and indexed by its first column, cut to the
\* rows from label "Allston" to label "West Roxbury", both included
boston_population_dict(sheet) ==
    LET lo == CHOOSE i \in 1..Len(sheet) : sheet[i]["Unnamed: 0"] = "Allston"
        hi == CHOOSE i \in 1..Len(sheet) : sheet[i]["Unnamed: 0"] = "West Roxbury"
        slice == SubSeq(sheet, lo, hi)
        pop_dict == to_dict(slice, "Unnamed: 0", "Total Population")
        \* a dict keeps its keys in the order they were first inserted
        first(x) == CHOOSE i \in 1..Len(slice) :
                        /\ slice[i]["Unnamed: 0"] = x
                        /\ \A j \in 1..(i - 1) : slice[j]["Unnamed: 0"] # x
        \* {k.strip(): v ...}: of the keys that strip to k, the last one wins
        winner(k) == CHOOSE x \in DOMAIN pop_dict :
                        /\ strip(x) = k
                        /\ \A y \in DOMAIN pop_dict : strip(y) = k => first(y) <= first(x)
    IN  [k \in {strip(x) : x \in DOMAIN pop_dict} |-> pop_dict[winner(k)]]

boston_geo_frame(file) ==
    LET geo_df == read_file_4326(file)
    IN  [geo_df EXCEPT !.rows = with_column(@, "Mapped_Name",
            [i \in 1..Len(@) |->
                fillna(map(BOSTON_NEIGHBORHOOD_NAME_MAP, @[i]["blockgr202"]),
                       @[i]["blockgr202"])])]

somerville_geo_frame(file) ==
    LET geo_df == read_file_4326(file)
    IN  [geo_df EXCEPT !.rows = with_column(@, "Mapped_Name",
            [i \in 1..Len(@) |-> @[i]["NBHD"]])]

\* the body of load_somerville_crime, given the crime table, the census
\* blocks and the frame load_somerville_geo() returns
somerville_crime_frame(file, blocks_file, geo_df) ==
    LET df0 == read_csv(file)
        day_month(i) ==
            IF df0[i]["Day and Month Reported"] = NaN
            THEN <<>> ELSE df0[i]["Day and Month Reported"]
        date_text(i) ==
            (IF day_month(i) = <<>> THEN <<1, 1>> ELSE day_month(i))
            \o <<df0[i]["Year Reported"]>>
        df1 == with_column(df0, "Date", [i \in 1..Len(df0) |-> to_datetime(date_text(i))])
        df2 == select(df1, {"Date", "Offense Type", "Block Code"})
        df3 == with_column(df2, "Crime",
                   [i \in 1..Len(df2) |-> title(astype_str(df2[i]["Offense Type"]))])
        df4 == with_column(df3, "Macro Crime",
                   [i \in 1..Len(df3) |-> map(SOMERVILLE_CRIME_MACROS, df3[i]["Crime"])])
        df5 == with_column(df4, "Block Code",
                   [i \in 1..Len(df4) |-> rstrip(astype_str(df4[i]["Block Code"]), DotZero)])
        somerville_blocks ==
            read_file_4326([blocks_file EXCEPT !.rows =
                SelectSeq(@, LAMBDA b : b["TOWN"] = "SOMERVILLE")])
        merged == merge(df5, select(somerville_blocks.rows, {"GEOID20", "geometry"}),
                        "Block Code", "GEOID20")
        joined == sjoin(merged, select(geo_df.rows, {"NBHD", "geometry"}))
    IN  select(rename(joined, "NBHD", "Neighborhood"),
               {"Date", "Crime", "Macro Crime", "Neighborhood"})

(***************************************************************************)
(* In-place updates.  A heap maps an object's name to <<its contents>>;    *)
(* the cached result of a loader is the object named after the loader.     *)
(***************************************************************************)
\* obj[col] = vals: the object itself changes
set_column(h, obj, col, vals) ==
    [h EXCEPT ![obj] = <<[@[1] EXCEPT !.rows = with_column(@, col, vals)]>>]

\* src.to_crs(epsg=...): a new frame dst; src is left as it is
to_crs(h, src, dst, epsg) == (dst :> <<[h[src][1] EXCEPT !.crs = epsg]>>) @@ h

\* src[col] = val; dst = src: the column is written into src itself
assign_in_place(h, src, dst, col, val) ==
    LET tagged == <<[h[src][1] EXCEPT !.rows =
                        with_column(@, col, [i \in 1..Len(@) |-> val])]>>
    IN  (dst :> tagged) @@ (src :> tagged) @@ h

\* src.assign(col=val): a new frame dst with the column; src is left as it is
assign(h, src, dst, col, val) ==
    LET h1 == (dst :> h[src]) @@ h
    IN  set_column(h1, dst, col, [i \in 1..Len(h[src][1].rows) |-> val])

\* the result, and the heap the call leaves behind
_build_area_weighted_population(h, geo_df, total_population) ==
    LET h1 == to_crs(h, geo_df, "area_df", "EPSG:26986")
        rows1 == h1["area_df"][1].rows
        h2 == set_column(h1, "area_df", "area",
                  [i \in 1..Len(rows1) |-> rows1[i]["geometry"].area])
        rows2 == h2["area_df"][1].rows
        total_area == SumSeq([i \in 1..Len(rows2) |-> rows2[i]["area"]])
        h3 == set_column(h2, "area_df", "pop",
                  [i \in 1..Len(rows2) |->
                      Frac(rows2[i]["area"] * total_population, total_area)])
        names == {h2[geo_df][1].rows[i]["NBHD"] : i \in 1..Len(h2[geo_df][1].rows)}
    IN  IF total_area = 0
        THEN [heap |-> h2,
              ret  |-> [name \in names \ {NULL} |-> float(total_population)]]
        ELSE [heap |-> h3,
              ret  |-> to_dict(h3["area_df"][1].rows, "NBHD", "pop")]

(***************************************************************************)
(* The memoised loaders.  st = [cache, reads, calls] is the state of the   *)
(* process; a loader returns the state it leaves, its result being         *)
(* st.cache[loader][1].                                                    *)
(***************************************************************************)
Loaders ==
    {"load_cambridge_crime", "load_cambridge_geo", "load_boston_crime",
     "load_boston_population", "load_boston_geo", "load_somerville_geo",
     "load_somerville_crime"}

Sources ==
    {"CAMBRIDGE_CRIME_CSV", "CAMBRIDGE_SHAPEFILE", "BOSTON_CRIME_CSV",
     "BOSTON_POP_XLSM", "BOSTON_SHAPEFILE", "SOMERVILLE_SHAPEFILE",
     "SOMERVILLE_CRIME_CSV", "MA_CENSUS_BLOCKS"}

Functions == Loaders \cup {"_build_area_weighted_population", "get_bundle"}

\* the heap cut back to the cached objects
cached(h) == [l \in Loaders |-> h[l]]

load_cambridge_crime(st) ==
    IF st.cache["load_cambridge_crime"] # <<>> THEN st
    ELSE [st EXCEPT
            !.calls["load_cambridge_crime"] = @ + 1,
            !.reads["CAMBRIDGE_CRIME_CSV"] = @ + 1,
            !.cache["load_cambridge_crime"] =
                <<cambridge_crime_frame(inputs.CAMBRIDGE_CRIME_CSV)>>]

load_cambridge_geo(st) ==
    IF st.cache["load_cambridge_geo"] # <<>> THEN st
    ELSE [st EXCEPT
            !.calls["load_cambridge_geo"] = @ + 1,
            !.reads["CAMBRIDGE_SHAPEFILE"] = @ + 1,
            !.cache["load_cambridge_geo"] =
                <<cambridge_geo_frame(inputs.CAMBRIDGE_SHAPEFILE)>>]

load_boston_crime(st) ==
    IF st.cache["load_boston_crime"] # <<>> THEN st
    ELSE [st EXCEPT
            !.calls["load_boston_crime"] = @ + 1,
            !.reads["BOSTON_CRIME_CSV"] = @ + 1,
            !.cache["load_boston_crime"] =
                <<boston_crime_frame(inputs.BOSTON_CRIME_CSV)>>]

load_boston_population(st) ==
    IF st.cache["load_boston_population"] # <<>> THEN st
    ELSE [st EXCEPT
            !.calls["load_boston_population"] = @ + 1,
            !.reads["BOSTON_POP_XLSM"] = @ + 1,
            !.cache["load_boston_population"] =
                <<boston_population_dict(inputs.BOSTON_POP_XLSM)>>]

load_boston_geo(st) ==
    IF st.cache["load_boston_geo"] # <<>> THEN st
    ELSE [st EXCEPT
            !.calls["load_boston_geo"] = @ + 1,
            !.reads["BOSTON_SHAPEFILE"] = @ + 1,
            !.cache["load_boston_geo"] =
                <<boston_geo_frame(inputs.BOSTON_SHAPEFILE)>>]

load_somerville_geo(st) ==
    IF st.cache["load_somerville_geo"] # <<>> THEN st
    ELSE [st EXCEPT
            !.calls["load_somerville_geo"] = @ + 1,
            !.reads["SOMERVILLE_SHAPEFILE"] = @ + 1,
            !.cache["load_somerville_geo"] =
                <<somerville_geo_frame(inputs.SOMERVILLE_SHAPEFILE)>>]

load_somerville_crime(st) ==
    IF st.cache["load_somerville_crime"] # <<>> THEN st
    ELSE LET s1 == [st EXCEPT
                      !.calls["load_somerville_crime"] = @ + 1,
                      !.reads["SOMERVILLE_CRIME_CSV"] = @ + 1,
                      !.reads["MA_CENSUS_BLOCKS"] = @ + 1]
             s2 == load_somerville_geo(s1)
         IN  [s2 EXCEPT !.cache["load_somerville_crime"] =
                 <<somerville_crime_frame(inputs.SOMERVILLE_CRIME_CSV,
                                          inputs.MA_CENSUS_BLOCKS,
                                          s2.cache["load_somerville_geo"][1])>>]

(***************************************************************************)
(* The bundle composers: [st |-> the state left, ret |-> the bundle]       *)
(***************************************************************************)
get_cambridge_bundle(st) ==
    LET s1 == load_cambridge_crime(st)
        s2 == load_cambridge_geo(s1)
    IN  [st  |-> s2,
         ret |-> [crime |-> s2.cache["load_cambridge_crime"][1],
                  geo |-> s2.cache["load_cambridge_geo"][1],
                  population |-> inputs.CAMBRIDGE_POP_2020,
                  zoom |-> <<13, 1>>,
                  population_year |-> "2020"]]

get_boston_bundle(st) ==
    LET s1 == load_boston_crime(st)
        s2 == load_boston_geo(s1)
        s3 == load_boston_population(s2)
    IN  [st  |-> s3,
         ret |-> [crime |-> s3.cache["load_boston_crime"][1],
                  geo |-> s3.cache["load_boston_geo"][1],
                  population |-> s3.cache["load_boston_population"][1],
                  zoom |-> <<12, 1>>,
                  population_year |-> "2019"]]

get_somerville_bundle(st) ==
    LET s1 == load_somerville_geo(st)
        built == _build_area_weighted_population(
                     s1.cache, "load_somerville_geo", inputs.SOMERVILLE_TOTAL_POP_2022)
        s2 == [s1 EXCEPT !.cache = cached(built.heap),
                         !.calls["_build_area_weighted_population"] = @ + 1]
        s3 == load_somerville_crime(s2)
    IN  [st  |-> s3,
         ret |-> [crime |-> s3.cache["load_somerville_crime"][1],
                  geo |-> s3.cache["load_somerville_geo"][1],
                  population |-> built.ret,
                  zoom |-> <<13, 1>>,
                  population_year |-> "2022 (area-weighted)"]]

\* the combined bundle, given the three bundles and the heap `h` that holds
\* the three frames tagged with their city
combined_bundle(cambridge, boston, somerville, h) ==
    [st  |-> [somerville.st EXCEPT !.cache = cached(h)],
     ret |-> [crime |-> concat(<<cambridge.ret.crime, boston.ret.crime,
                                 somerville.ret.crime>>),
              geo |-> [crs  |-> h["load_cambridge_geo"][1].crs,
                       rows |-> concat(<<h["cambridge_city"][1].rows,
                                         h["boston_city"][1].rows,
                                         h["somerville_city"][1].rows>>)],
              population |-> merge_dicts(merge_dicts(cambridge.ret.population,
                                                     boston.ret.population),
                                         somerville.ret.population),
              zoom |-> <<23, 2>>,
              population_year |-> "2020, 2019, 2022"]]

\* ....assign(City=...) on the three cached frames, in the order of the list
tag_cities(cambridge, boston, somerville) ==
    combined_bundle(cambridge, boston, somerville,
        assign(assign(assign(somerville.st.cache,
                             "load_cambridge_geo", "cambridge_city", "City", "Cambridge"),
                      "load_boston_geo", "boston_city", "City", "Boston"),
               "load_somerville_geo", "somerville_city", "City", "Somerville"))

\* somerville = get_somerville_bundle(), called third
then_somerville(cambridge, boston) ==
    tag_cities(cambridge, boston, get_somerville_bundle(boston.st))

\* boston = get_boston_bundle(), called second
then_boston(cambridge) == then_somerville(cambridge, get_boston_bundle(cambridge.st))

get_all_metro_bundle(st) == then_boston(get_cambridge_bundle(st))

get_bundle(st, municipality) ==
    IF municipality = "Cambridge" THEN get_cambridge_bundle(st)
    ELSE IF municipality = "Boston" THEN get_boston_bundle(st)
    ELSE IF municipality = "Somerville" THEN get_somerville_bundle(st)
    ELSE get_all_metro_bundle(st)

(***************************************************************************)
(* The files and tables a process may find                                 *)
(***************************************************************************)
\* all sequences over S of length lo..hi
SeqsOf(S, lo, hi) == UNION {[1..n -> S] : n \in lo..hi}

CambridgeCsvRow(when, crime, neighborhood) ==
    [c \in {"File Number", "Crime Date Time", "Crime", "Neighborhood", "Reporting Area"} |->
        CASE c = "File Number" -> "2020-00001"
          [] c = "Crime Date Time" -> when
          [] c = "Crime" -> crime
          [] c = "Neighborhood" -> neighborhood
          [] OTHER -> "602"]

BostonCsvRow(when, crime, neighborhood) ==
    [c \in {"From Date", "Crime", "Neighborhood", "BPD District"} |->
        CASE c = "From Date" -> when
          [] c = "Crime" -> crime
          [] c = "Neighborhood" -> neighborhood
          [] OTHER -> "C6"]

SomervilleCsvRow(day_month, offense, block) ==
    [c \in {"Incident Number", "Day and Month Reported", "Year Reported",
            "Offense Type", "Block Code"} |->
        CASE c = "Incident Number" -> "22000001"
          [] c = "Day and Month Reported" -> day_month
          [] c = "Year Reported" -> 2022
          [] c = "Offense Type" -> offense
          [] OTHER -> block]

Region(column, name, pts, area) ==
    [c \in {column, "geometry"} |->
        IF c = column THEN name ELSE [pts |-> pts, area |-> area]]

Block(town, geoid, pts) ==
    [c \in {"TOWN", "GEOID20", "geometry"} |->
        CASE c = "TOWN" -> town
          [] c = "GEOID20" -> geoid
          [] OTHER -> [pts |-> pts, area |-> 1]]

SheetRow(label, total) ==
    [c \in {"Unnamed: 0", "Total Population"} |->
        IF c = "Unnamed: 0" THEN label ELSE float(total)]

\* the i-th region of a shapefile whose regions are named `names`
Regions(column, names) ==
    [i \in 1..Len(names) |-> Region(column, names[i], {i}, 10 * i)]

CambridgeCsvRows ==
    {CambridgeCsvRow(<<<<1, 2, 2020>>, "10:00">>, <<"A", "b">>, "Area 4"),
     CambridgeCsvRow(NaT, NaN, NULL)}

BostonCsvRows ==
    {BostonCsvRow(<<<<3, 4, 2019>>, "23:30">>, <<"b", " ", "a">>, "South Boston Waterfront"),
     BostonCsvRow(NaT, NaN, "Roxbury")}

SomervilleCsvRows ==
    {SomervilleCsvRow(<<3, 15>>, <<"a", "b">>, <<"1", "5">>),
     SomervilleCsvRow(NaN, NaN, <<"1", "5", "0", "0", ".", "0">>)}

DefaultBlocks ==
    [crs  |-> "EPSG:26986",
     rows |-> <<Block("SOMERVILLE", <<"1", "5">>, {1}),
                Block("BOSTON", <<"1", "6">>, {2})>>]

DefaultSheet ==
    <<SheetRow("Boston", 600), SheetRow("Allston", 100), SheetRow("Dorchester ", 200),
      SheetRow("West Roxbury", 300), SheetRow("Source", 0)>>

DefaultInputs ==
    [CAMBRIDGE_CRIME_CSV |->
        <<CambridgeCsvRow(<<<<1, 2, 2020>>, "10:00">>, <<"A", "b">>, "Area 4")>>,
     CAMBRIDGE_SHAPEFILE |->
        [crs |-> "EPSG:26986", rows |-> Regions("NAME", <<"Area Four", "Riverside">>)],
     CAMBRIDGE_POP_2020 |-> ("The Port" :> float(7000)) @@ ("Riverside" :> float(12000)),
     BOSTON_CRIME_CSV |->
        <<BostonCsvRow(<<<<3, 4, 2019>>, "23:30">>, <<"b", " ", "a">>, "Roxbury")>>,
     BOSTON_SHAPEFILE |->
        [crs |-> "EPSG:4326", rows |-> Regions("blockgr202", <<"Roxbury">>)],
     BOSTON_POP_XLSM |-> DefaultSheet,
     SOMERVILLE_CRIME_CSV |-> <<SomervilleCsvRow(<<3, 15>>, <<"a", "b">>, <<"1", "5">>)>>,
     SOMERVILLE_SHAPEFILE |->
        [crs |-> "EPSG:26986", rows |-> Regions("NBHD", <<"Spring Hill", "Ten Hills">>)],
     SOMERVILLE_TOTAL_POP_2022 |-> 3000,
     MA_CENSUS_BLOCKS |-> DefaultBlocks]

\* the crime tables vary
CrimeInputs ==
    {[DefaultInputs EXCEPT !.CAMBRIDGE_CRIME_CSV = a, !.BOSTON_CRIME_CSV = b,
                           !.SOMERVILLE_CRIME_CSV = c] :
        a \in SeqsOf(CambridgeCsvRows, 0, MaxRows),
        b \in SeqsOf(BostonCsvRows, 0, MaxRows),
        c \in SeqsOf(SomervilleCsvRows, 0, MaxRows)}

\* the boundary files vary: their reference system and their regions' names
GeoInputs ==
    {[DefaultInputs EXCEPT
        !.CAMBRIDGE_SHAPEFILE = [crs |-> crs, rows |-> Regions("NAME", a)],
        !.BOSTON_SHAPEFILE = [crs |-> "EPSG:4326", rows |-> Regions("blockgr202", b)],
        !.SOMERVILLE_SHAPEFILE = [crs |-> crs, rows |-> Regions("NBHD", c)]] :
        crs \in {"EPSG:4326", "EPSG:26986"},
        a \in SeqsOf({"Area Four", "Riverside"}, 1, 2),
        b \in SeqsOf({"South Boston Waterfront", "Roxbury"}, 1, 2),
        c \in SeqsOf({"Spring Hill", NULL}, 1, 2)}

\* the population data vary: the static table, the sheet, the regions' areas
PopulationInputs ==
    {[DefaultInputs EXCEPT
        !.CAMBRIDGE_POP_2020 = a,
        !.BOSTON_POP_XLSM =
            <<SheetRow("Boston", 600), SheetRow("Allston", 100)>> \o b
            \o <<SheetRow("West Roxbury", 300), SheetRow("Source", 0)>>,
        !.SOMERVILLE_SHAPEFILE =
            [crs  |-> "EPSG:26986",
             rows |-> [i \in 1..Len(c) |-> Region("NBHD", c[i][1], {i}, c[i][2])]]] :
        a \in {("The Port" :> float(7000)),
               ("The Port" :> float(7000)) @@ ("Riverside" :> float(12000))},
        b \in SeqsOf({SheetRow("Riverside", 400), SheetRow("Dorchester ", 200)}, 0, 1),
        c \in SeqsOf({"Riverside", "Spring Hill"} \X {0, 10, 30}, 1, 2)}

(***************************************************************************)
(* One process, one thread: a sequence of get_bundle calls                 *)
(***************************************************************************)
Municipalities == {"Cambridge", "Boston", "Somerville", "All"}

Fresh ==
    /\ cache = [l \in Loaders |-> <<>>]
    /\ reads = [s \in Sources |-> 0]
    /\ calls = [f \in Functions |-> 0]
    /\ bundle = <<>>
    /\ pc = <<>>
    /\ arg = <<>>
    /\ out = <<>>

Init ==
    /\ inputs \in CrimeInputs \cup GeoInputs \cup PopulationInputs
    /\ Fresh

\* the process after get_bundle(municipality) has returned r
Returned(municipality, r) ==
    /\ cache' = r.st.cache
    /\ reads' = r.st.reads
    /\ calls' = [r.st.calls EXCEPT !["get_bundle"] = @ + 1]
    /\ bundle' = <<[municipality |-> municipality, ret |-> r.ret]>>

GetBundle ==
    \E municipality \in Municipalities :
        /\ calls["get_bundle"] < MaxCalls
        /\ Returned(municipality,
                    get_bundle([cache |-> cache, reads |-> reads, calls |-> calls],
                               municipality))
        /\ UNCHANGED <<inputs, pc, arg, out>>

Next == GetBundle

Spec == Init /\ [][Next]_vars

(***************************************************************************)
(* Properties of a single-threaded process                                 *)
(***************************************************************************)
Cities == {"Cambridge", "Boston", "Somerville"}

\* the last call asked for the combined bundle
ReturnedAllMetro == bundle # <<>> /\ bundle[1].municipality \notin Cities

\* the row `combined` carries the record `row`: the same value in each of
\* the record's columns, a missing value in every other column
Carries(combined, row) ==
    /\ DOMAIN row \subseteq DOMAIN combined
    /\ \A c \in DOMAIN row : combined[c] = row[c]
    /\ \A c \in DOMAIN combined \ DOMAIN row : combined[c] = NULL

\* C1: the combined bundle's crime sequence is the Cambridge records, then
\* the Boston records, then the Somerville records, each city's records in
\* the order its loader returned them; so its length is the sum of the three
\* lengths and no record is dropped or duplicated.
C1_CombinedCrimeIsCityMajor ==
    ReturnedAllMetro =>
        LET crime == bundle[1].ret.crime
            a == cache["load_cambridge_crime"][1]
            b == cache["load_boston_crime"][1]
            c == cache["load_somerville_crime"][1]
        IN  /\ Len(crime) = Len(a) + Len(b) + Len(c)
            /\ \A i \in 1..Len(a) : Carries(crime[i], a[i])
            /\ \A i \in 1..Len(b) : Carries(crime[Len(a) + i], b[i])
            /\ \A i \in 1..Len(c) : Carries(crime[Len(a) + Len(b) + i], c[i])

\* a combined bundle of three non-empty crime tables, two of them with two
\* different records
C1_Witness ==
    /\ ReturnedAllMetro
    /\ Len(cache["load_cambridge_crime"][1]) = 2
    /\ cache["load_cambridge_crime"][1][1]["Crime"] # cache["load_cambridge_crime"][1][2]["Crime"]
    /\ Len(cache["load_boston_crime"][1]) = 1
    /\ Len(cache["load_somerville_crime"][1]) = 2
    /\ Len(bundle[1].ret.crime) = 5

\* C2: every loader, and the population of every city, is computed at most
\* once in a process, and every source is read at most once.
C2_ComputedAndReadAtMostOnce ==
    /\ \A f \in Functions \ {"get_bundle"} : calls[f] <= 1
    /\ \A s \in Sources : reads[s] <= 1

\* what holds of the code: each lru_cache'd loader runs at most once and
\* each source is read at most once
MemoisedLoadersRunOnce ==
    /\ \A l \in Loaders : calls[l] <= 1
    /\ \A s \in Sources : reads[s] <= 1

\* C5: every crime record a Source Loader returned has a crime label.
C5_CrimeLabelNeverNull ==
    \A l \in {"load_cambridge_crime", "load_boston_crime", "load_somerville_crime"} :
        cache[l] # <<>> =>
            \A i \in 1..Len(cache[l][1]) : cache[l][1][i]["Crime"] # NaN

\* what holds of the code: Somerville's labels are never missing
SomervilleLabelNeverNull ==
    cache["load_somerville_crime"] # <<>> =>
        \A i \in 1..Len(cache["load_somerville_crime"][1]) :
            cache["load_somerville_crime"][1][i]["Crime"] # NaN

\* the canonical name the name table `names` gives the raw name
Canonical(names, raw) == IF raw \in DOMAIN names THEN names[raw] ELSE raw

\* every region of the cached frame of `loader` has the canonical name of
\* its raw name, read from `column`
CanonicalNames(loader, column, names) ==
    cache[loader] # <<>> =>
        \A i \in 1..Len(cache[loader][1].rows) :
            LET region == cache[loader][1].rows[i]
            IN  /\ region["Mapped_Name"] = Canonical(names, region[column])
                /\ region[column] # NULL => region["Mapped_Name"] # NULL

\* C6: in every Geo Loader's result each region's Mapped_Name is the name
\* table's value for the raw name, and the raw name itself when the table
\* has no entry; a non-null raw name never gets a null Mapped_Name.
C6_CanonicalNameOrRawName ==
    /\ CanonicalNames("load_cambridge_geo", "NAME", CAMBRIDGE_NEIGHBORHOOD_NAME_MAP)
    /\ CanonicalNames("load_boston_geo", "blockgr202", BOSTON_NEIGHBORHOOD_NAME_MAP)
    /\ CanonicalNames("load_somerville_geo", "NBHD", <<>>)

\* what holds of the code: Boston and Somerville fall back to the raw name
BostonSomervilleCanonicalNames ==
    /\ CanonicalNames("load_boston_geo", "blockgr202", BOSTON_NEIGHBORHOOD_NAME_MAP)
    /\ CanonicalNames("load_somerville_geo", "NBHD", <<>>)

\* Somerville's population table as get_somerville_bundle computes it
SomervillePopulation ==
    _build_area_weighted_population(cache, "load_somerville_geo",
                                    inputs.SOMERVILLE_TOTAL_POP_2022).ret

\* C7: the combined population's keys are the union of the three cities'
\* keys; a key's value is Somerville's if Somerville has the key, else
\* Boston's if Boston has it, else Cambridge's.
C7_LaterCityWinsSharedKey ==
    ReturnedAllMetro =>
        LET population == bundle[1].ret.population
            a == inputs.CAMBRIDGE_POP_2020
            b == cache["load_boston_population"][1]
            c == SomervillePopulation
        IN  /\ DOMAIN population = DOMAIN a \cup DOMAIN b \cup DOMAIN c
            /\ \A k \in DOMAIN population :
                   population[k] = IF k \in DOMAIN c THEN c[k]
                                   ELSE IF k \in DOMAIN b THEN b[k]
                                   ELSE a[k]

\* a combined bundle where one name is a key of all three cities with three
\* different values, and another a key of Cambridge alone
C7_Witness ==
    /\ ReturnedAllMetro
    /\ "Riverside" \in DOMAIN inputs.CAMBRIDGE_POP_2020
    /\ "Riverside" \in DOMAIN cache["load_boston_population"][1]
    /\ "Riverside" \in DOMAIN SomervillePopulation
    /\ inputs.CAMBRIDGE_POP_2020["Riverside"] # cache["load_boston_population"][1]["Riverside"]
    /\ cache["load_boston_population"][1]["Riverside"] # SomervillePopulation["Riverside"]
    /\ bundle[1].ret.population["The Port"] = inputs.CAMBRIDGE_POP_2020["The Port"]

\* what the loader computes from the files when it runs
FirstReturned(l) ==
    CASE l = "load_cambridge_crime" -> cambridge_crime_frame(inputs.CAMBRIDGE_CRIME_CSV)
      [] l = "load_cambridge_geo" -> cambridge_geo_frame(inputs.CAMBRIDGE_SHAPEFILE)
      [] l = "load_boston_crime" -> boston_crime_frame(inputs.BOSTON_CRIME_CSV)
      [] l = "load_boston_population" -> boston_population_dict(inputs.BOSTON_POP_XLSM)
      [] l = "load_boston_geo" -> boston_geo_frame(inputs.BOSTON_SHAPEFILE)
      [] l = "load_somerville_geo" -> somerville_geo_frame(inputs.SOMERVILLE_SHAPEFILE)
      [] OTHER -> somerville_crime_frame(inputs.SOMERVILLE_CRIME_CSV,
                      inputs.MA_CENSUS_BLOCKS,
                      somerville_geo_frame(inputs.SOMERVILLE_SHAPEFILE))

\* C9: whatever bundles have been built, every cached result is what its
\* loader first returned: tagging the regions with City and computing the
\* area-weighted population change no cached table.
C9_CachedResultsNeverMutated ==
    \A l \in Loaders : cache[l] # <<>> => cache[l] = <<FirstReturned(l)>>

\* a single-city bundle was built first, the combined bundle after it: the
\* cached frames have been tagged and the population computed twice
C9_Witness ==
    /\ ReturnedAllMetro
    /\ calls["get_bundle"] = 2
    /\ calls["_build_area_weighted_population"] = 2
    /\ Len(cache["load_cambridge_geo"][1].rows) = 2
    /\ \A i \in 1..Len(bundle[1].ret.geo.rows) : "City" \in DOMAIN bundle[1].ret.geo.rows[i]

(***************************************************************************)
(* The block-code normalisation of load_somerville_crime, on its own       *)
(***************************************************************************)
Chars == {"1", "5", "0", "."}

\* nothing but `arg` and `out` is in use
Idle ==
    /\ inputs = DefaultInputs
    /\ cache = [l \in Loaders |-> <<>>]
    /\ reads = [s \in Sources |-> 0]
    /\ calls = [f \in Functions |-> 0]
    /\ bundle = <<>>
    /\ pc = <<>>
    /\ out = <<>>

InitStrip ==
    /\ arg \in SeqsOf(Chars, 0, MaxLen) \cup {NaN}
    /\ Idle

\* df["Block Code"].astype(str).str.rstrip(".0") on one cell
NormalizeBlockCode ==
    /\ out = <<>>
    /\ out' = <<rstrip(astype_str(arg), DotZero)>>
    /\ UNCHANGED <<inputs, cache, reads, calls, bundle, pc, arg>>

SpecStrip == InitStrip /\ [][NormalizeBlockCode]_vars

\* C10: the normalised block code is the identifier without its longest
\* trailing run of the characters '.' and '0', and nothing else is removed:
\* "1500.0" becomes "15", and an identifier that ends in zero digits loses
\* them.
C10_StripsTrailingDotsAndZeros ==
    out # <<>> =>
        LET s == astype_str(arg)
            r == out[1]
        IN  /\ Len(r) <= Len(s)
            /\ r = SubSeq(s, 1, Len(r))
            /\ \A i \in (Len(r) + 1)..Len(s) : s[i] \in {".", "0"}
            /\ Len(r) > 0 => r[Len(r)] \notin {".", "0"}
            /\ s = <<"1", "5", "0", "0", ".", "0">> => r = <<"1", "5">>
            /\ (Len(s) > 0 /\ s[Len(s)] = "0") => r # s

\* the literal "1500.0" has been normalised to "15"
C10_Witness ==
    /\ arg = <<"1", "5", "0", "0", ".", "0">>
    /\ out = <<(<<"1", "5">>)>>

(***************************************************************************)
(* _build_area_weighted_population, on its own                             *)
(***************************************************************************)
InitPopulation ==
    /\ arg \in
        {[geo_df |-> [crs  |-> "EPSG:4326",
                      rows |-> [i \in 1..Len(r) |-> Region("NBHD", r[i][1], {i}, r[i][2])]],
          total_population |-> p] :
            r \in SeqsOf({"Winter Hill", "Spring Hill", "Ten Hills"} \X {0, 10, 20, 70},
                         0, MaxRegions),
            p \in {2000, 7}}
    /\ Idle

ApportionPopulation ==
    /\ out = <<>>
    /\ out' = <<_build_area_weighted_population(
                    ("geo_df" :> <<arg.geo_df>>), "geo_df", arg.total_population).ret>>
    /\ UNCHANGED <<inputs, cache, reads, calls, bundle, pc, arg>>

SpecPopulation == InitPopulation /\ [][ApportionPopulation]_vars

\* the sum of the values of the dict d over the keys K
RECURSIVE SumValues(_, _)
SumValues(d, K) ==
    IF K = {} THEN float(0)
    ELSE LET k == CHOOSE x \in K : TRUE
         IN  AddFrac(d[k], SumValues(d, K \ {k}))

TotalArea(geo_df) ==
    SumSeq([i \in 1..Len(geo_df.rows) |-> geo_df.rows[i]["geometry"].area])

\* C3: when the regions' total area is positive, the values of the returned
\* mapping sum to the total population.
C3_ValuesSumToTotalPopulation ==
    (out # <<>> /\ TotalArea(arg.geo_df) > 0) =>
        SumValues(out[1], DOMAIN out[1]) = float(arg.total_population)

\* what holds of the code: when no two regions share a name, each region's
\* value is area / total area x P and the values sum to P; areas 10, 20, 70
\* and P = 2000 give 200, 400, 1400
DistinctNamesSumToTotalPopulation ==
    LET rows == arg.geo_df.rows
    IN  (/\ out # <<>>
         /\ TotalArea(arg.geo_df) > 0
         /\ \A i, j \in 1..Len(rows) : rows[i]["NBHD"] = rows[j]["NBHD"] => i = j)
        => /\ SumValues(out[1], DOMAIN out[1]) = float(arg.total_population)
           /\ \A i \in 1..Len(rows) :
                  out[1][rows[i]["NBHD"]] =
                      Frac(rows[i]["geometry"].area * arg.total_population,
                           TotalArea(arg.geo_df))
           /\ (/\ arg.total_population = 2000
               /\ [i \in 1..Len(rows) |-> rows[i]["geometry"].area] = <<10, 20, 70>>)
              => [i \in 1..Len(rows) |-> out[1][rows[i]["NBHD"]]]
                     = <<float(200), float(400), float(1400)>>

(***************************************************************************)
(* The block merge and the spatial join of load_somerville_crime, on their *)
(* own                                                                     *)
(***************************************************************************)
JoinGeometries == {{1}, {2}, {1, 2}}

InitJoin ==
    /\ arg \in
        {[crime  |-> c,
          blocks |-> [crs |-> "EPSG:26986", rows |-> b],
          geo    |-> [crs  |-> "EPSG:26986",
                      rows |-> <<Region("NBHD", "Spring Hill", n1, 10),
                                 Region("NBHD", "Ten Hills", n2, 20)>>]] :
            c \in SeqsOf({SomervilleCsvRow(<<3, 15>>, <<"a", "b">>, <<"1", "5">>),
                          SomervilleCsvRow(<<3, 15>>, <<"a", "b">>, <<"1", "6", ".", "0">>),
                          SomervilleCsvRow(<<3, 15>>, <<"a", "b">>, NaN)}, 1, MaxJoinRows),
            b \in SeqsOf({Block("SOMERVILLE", <<"1", "5">>, {1}),
                          Block("SOMERVILLE", <<"1", "5">>, {2}),
                          Block("SOMERVILLE", <<"1", "5">>, {1, 2}),
                          Block("BOSTON", <<"1", "6">>, {1})}, 0, MaxJoinRows),
            n1 \in JoinGeometries,
            n2 \in JoinGeometries}
    /\ Idle

ResolveNeighborhoods ==
    /\ out = <<>>
    /\ out' = <<somerville_crime_frame(arg.crime, arg.blocks, somerville_geo_frame(arg.geo))>>
    /\ UNCHANGED <<inputs, cache, reads, calls, bundle, pc, arg>>

SpecJoin == InitJoin /\ [][ResolveNeighborhoods]_vars

\* the output records that come from the source row i
RecordsOf(i) == {j \in 1..Len(out[1]) : out[1][j]["_row"] = i}

\* the Somerville census blocks whose GEOID20 is the row's normalised code
BlocksOf(i) ==
    {b \in 1..Len(arg.blocks.rows) :
        /\ arg.blocks.rows[b]["TOWN"] = "SOMERVILLE"
        /\ arg.blocks.rows[b]["GEOID20"] =
               rstrip(astype_str(arg.crime[i]["Block Code"]), DotZero)}

\* the neighbourhood polygons the block b intersects, and those it lies in
Intersecting(b) ==
    {n \in 1..Len(arg.geo.rows) :
        arg.blocks.rows[b]["geometry"].pts \cap arg.geo.rows[n]["geometry"].pts # {}}

Containing(b) ==
    {n \in 1..Len(arg.geo.rows) :
        arg.blocks.rows[b]["geometry"].pts \subseteq arg.geo.rows[n]["geometry"].pts}

\* the source row i yields exactly one record, with this neighbourhood
YieldsOne(i, neighborhood) ==
    /\ Cardinality(RecordsOf(i)) = 1
    /\ \A j \in RecordsOf(i) : out[1][j]["Neighborhood"] = neighborhood

\* every source row is in the output; a row without a block, or whose block
\* intersects no polygon, yields one record without a neighbourhood
UnresolvedRowsAreKept ==
    \A i \in 1..Len(arg.crime) :
        /\ RecordsOf(i) # {}
        /\ BlocksOf(i) = {} => YieldsOne(i, NULL)
        /\ \A b \in BlocksOf(i) :
               (BlocksOf(i) = {b} /\ Intersecting(b) = {}) => YieldsOne(i, NULL)

\* C4: every source row is in the output; a row without a block geometry, or
\* whose block intersects no polygon, yields exactly one record with a null
\* neighbourhood; a row whose block lies inside exactly one polygon yields
\* exactly one record, carrying that polygon's neighbourhood.
C4_BlockInsideOnePolygonYieldsOneRecord ==
    out # <<>> =>
        /\ UnresolvedRowsAreKept
        /\ \A i \in 1..Len(arg.crime) : \A b \in BlocksOf(i) : \A n \in Containing(b) :
               (BlocksOf(i) = {b} /\ Containing(b) = {n})
                   => YieldsOne(i, arg.geo.rows[n]["NBHD"])

\* C4, amended: ... a row whose block intersects exactly one polygon yields
\* exactly one record, carrying that polygon's neighbourhood; a row whose
\* block intersects several polygons yields one record for each of them.
C4_BlockIntersectingOnePolygonYieldsOneRecord ==
    out # <<>> =>
        /\ UnresolvedRowsAreKept
        /\ \A i \in 1..Len(arg.crime) : \A b \in BlocksOf(i) :
               BlocksOf(i) = {b} =>
                   /\ \A n \in Intersecting(b) :
                          Intersecting(b) = {n} => YieldsOne(i, arg.geo.rows[n]["NBHD"])
                   /\ Intersecting(b) # {} =>
                          /\ Cardinality(RecordsOf(i)) = Cardinality(Intersecting(b))
                          /\ {out[1][j]["Neighborhood"] : j \in RecordsOf(i)} =
                                 {arg.geo.rows[n]["NBHD"] : n \in Intersecting(b)}

\* the join has run on two rows: the first has one block, which intersects
\* one polygon only, and got that neighbourhood; the second has no block and
\* was kept without a neighbourhood
C4_Witness ==
    /\ out # <<>>
    /\ Len(arg.crime) = 2
    /\ \E b \in BlocksOf(1) : BlocksOf(1) = {b} /\ Intersecting(b) = {1}
    /\ YieldsOne(1, "Spring Hill")
    /\ BlocksOf(2) = {}
    /\ YieldsOne(2, NULL)

(***************************************************************************)
(* Several threads calling the loaders.  functools.lru_cache looks the key *)
(* up, calls the function on a miss and stores the result when the         *)
(* function returns; the three steps are not one atomic step, and a        *)
(* result that finds its key already stored is returned without storing.   *)
(***************************************************************************)
Threads == 1..NThreads

\* top-level loader calls a thread makes
CallsPerThread == 2

\* the files the body of a loader reads
SourcesOf(l) ==
    CASE l = "load_cambridge_crime" -> {"CAMBRIDGE_CRIME_CSV"}
      [] l = "load_cambridge_geo" -> {"CAMBRIDGE_SHAPEFILE"}
      [] l = "load_boston_crime" -> {"BOSTON_CRIME_CSV"}
      [] l = "load_boston_population" -> {"BOSTON_POP_XLSM"}
      [] l = "load_boston_geo" -> {"BOSTON_SHAPEFILE"}
      [] l = "load_somerville_geo" -> {"SOMERVILLE_SHAPEFILE"}
      [] OTHER -> {"SOMERVILLE_CRIME_CSV", "MA_CENSUS_BLOCKS"}

InitThreads ==
    /\ inputs = DefaultInputs
    /\ cache = [l \in Loaders |-> <<>>]
    /\ reads = [s \in Sources |-> 0]
    /\ calls = [f \in Functions |-> 0]
    /\ bundle = <<>>
    /\ pc = [t \in Threads |-> [stack |-> <<>>, left |-> CallsPerThread]]
    /\ arg = <<>>
    /\ out = <<>>

\* the innermost call of thread t
Top(t) == pc[t].stack[Len(pc[t].stack)]

Pop(t) == [pc EXCEPT ![t].stack = SubSeq(@, 1, Len(@) - 1)]

Goto(t, at) == [pc EXCEPT ![t].stack[Len(pc[t].stack)].at = at]

\* thread t calls the loader l
Call(t, l) ==
    /\ pc[t].stack = <<>>
    /\ pc[t].left > 0
    /\ pc' = [pc EXCEPT ![t] = [stack |-> <<[loader |-> l, at |-> "lookup"]>>,
                                left |-> @.left - 1]]
    /\ UNCHANGED <<inputs, cache, reads, calls, bundle, arg, out>>

\* the wrapper looks the key up: a hit returns, a miss goes on to the body
Lookup(t) ==
    /\ pc[t].stack # <<>>
    /\ Top(t).at = "lookup"
    /\ pc' = IF cache[Top(t).loader] # <<>> THEN Pop(t) ELSE Goto(t, "body")
    /\ UNCHANGED <<inputs, cache, reads, calls, bundle, arg, out>>

\* the body reads its files; load_somerville_crime then calls
\* load_somerville_geo
Body(t) ==
    /\ pc[t].stack # <<>>
    /\ Top(t).at = "body"
    /\ calls' = [calls EXCEPT ![Top(t).loader] = @ + 1]
    /\ reads' = [s \in Sources |->
                    IF s \in SourcesOf(Top(t).loader) THEN reads[s] + 1 ELSE reads[s]]
    /\ pc' = IF Top(t).loader = "load_somerville_crime"
             THEN [Goto(t, "store") EXCEPT
                      ![t].stack = Append(@, [loader |-> "load_somerville_geo",
                                              at |-> "lookup"])]
             ELSE Goto(t, "store")
    /\ UNCHANGED <<inputs, cache, bundle, arg, out>>

\* the body has returned: the wrapper stores the result unless the key was
\* stored meanwhile
Store(t) ==
    /\ pc[t].stack # <<>>
    /\ Top(t).at = "store"
    /\ cache' = IF cache[Top(t).loader] # <<>> THEN cache
                ELSE [cache EXCEPT ![Top(t).loader] = <<FirstReturned(Top(t).loader)>>]
    /\ pc' = Pop(t)
    /\ UNCHANGED <<inputs, reads, calls, bundle, arg, out>>

NextThreads ==
    \E t \in Threads :
        \/ \E l \in Loaders : Call(t, l)
        \/ Lookup(t)
        \/ Body(t)
        \/ Store(t)

SpecThreads == InitThreads /\ [][NextThreads]_vars

\* C8: however the threads' first calls interleave, each loader's body runs
\* at most once and each source is read at most once.
C8_ComputedOnceUnderConcurrency ==
    /\ \A l \in Loaders : calls[l] <= 1
    /\ \A s \in Sources : reads[s] <= 1

====
